---- MODULE Spec2Model ----
(***************************************************************************)
(* Model of the real-time processor of firewheel-graph                     *)
(* (crates/firewheel-graph/src/processor.rs): the audio-thread executor    *)
(* FirewheelProcessor, its two SPSC message queues, and the control side   *)
(* that feeds it.                                                          *)
(*                                                                         *)
(* The audio thread is one sequential process whose position is `pc`.      *)
(* Every pop of the inbound queue and every push to the outbound queue is  *)
(* one atomic step, so the control side may push or pop between any two of *)
(* them, as the lock-free ring buffers allow.                              *)
(*                                                                         *)
(* The beep node (basic_nodes/beep_test.rs) is modelled beside it: the     *)
(* node, the processor that activate makes, the atomic flag they share and *)
(* the channel buffers of its process calls. A store or a load of the flag *)
(* is one atomic step on one coherent cell.                                *)
(*                                                                         *)
(* Spec and SpecSwap run the processor against callbacks of every shape    *)
(* and against schedules of every shape; SpecWell against a control side   *)
(* that sends well-formed schedules only; SpecBeep runs the beep node.     *)
(***************************************************************************)
EXTENDS Integers, Sequences, FiniteSets, TLC

\* ------------------------------------------------------------------ bounds

\* stream_info.max_block_frames of the stream the processor was built for.
StreamMaxBlockFrames == 2
\* Largest `frames` a callback asks for.
MaxFrames == 5
\* Largest channel count of a callback.
MaxChannels == 2
\* Number of NewSchedule messages the control side sends.
MaxSchedules == 3
\* Number of them that carry node lists.
SwapSchedules == 2
\* Number of Stop messages the control side sends.
MaxStops == 1
\* Capacity of the control -> processor ring buffer.
InCapacity == 2
\* Capacity of the processor -> control ring buffer.
OutCapacity == 1
\* `frames` of the callbacks while schedules of every shape are swapped.
SwapFrames == 3
\* Longest new_node_processors / nodes_to_remove / schedule entry list.
MaxListLen == 1
\* MBF of the beep node: the length of one channel buffer, the largest block.
BeepMaxBlockFrames == 2
\* Largest number of output channels of the beep node.
MaxBeepOutputs == 2
\* The oscillator phase is counted in 1 / PhaseSteps of a cycle.
PhaseSteps == 4
\* Largest freq_hz asked of BeepTestNode::new, in units of
\* sample_rate / PhaseSteps.
MaxFreq == 6

\* ------------------------------------------------------------------ values

\* NodeID.idx: a generational index <<slot, generation>>.
NodeIDs == {<<0, 0>>, <<0, 1>>, <<1, 0>>}
Slot(id) == id[1]
Gen(id) == id[2]

\* Sample values: what the buffer held before the call, 0.0, and a sample
\* copied from the graph outputs by sub-block number b (b >= 1).
Garbage == -1
Zero == 0

Min(a, b) == IF a < b THEN a ELSE b

\* Sequences over S without repetition, of length at most n.
DistinctSeqs(S, n) ==
    {s \in UNION {[1..k -> S] : k \in 0..n} :
        \A i, j \in 1..Len(s) : i /= j => s[i] /= s[j]}

Range(s) == {s[i] : i \in 1..Len(s)}

VARIABLES
    nodes,            \* Arena: slot -> [gen, proc] for the occupied slots
    schedule_data,    \* Option<Box<ScheduleHeapData>>: <<>> or <<data>>
    user_cx,          \* Option<C>: TRUE while the processor holds it
    from_graph,       \* inbound ring buffer (control -> processor)
    to_graph,         \* outbound ring buffer (processor -> control)
    running,
    pc,               \* position of the audio thread
    aborted,          \* "none", or the assertion / unwrap / lookup that failed
    status,           \* return value of the last finished call
    call,             \* arguments of the current call
    output,           \* the output buffer of the current call
    frames_processed,
    block_frames,
    blocks,           \* history: the sub-blocks of the current call
    next_id,          \* control side: id of the next schedule to send
    issued,           \* control side: NodeIDs already given to a processor
    stops_sent,
    received,         \* history: ScheduleHeapData popped by the processor
    out_log,          \* history: every message pushed to the outbound queue
    audio_dropped,    \* history: heap objects deallocated on the audio thread
    last,             \* history: what the last audio-thread step did
    flags,            \* beep: the Arc<AtomicBool> allocations, by number
    node,             \* beep: <<>> or <<BeepTestNode>>
    beep,             \* beep: <<>> or <<BeepTestProcessor>>
    beep_pc,          \* beep: position of the audio thread in process
    beep_call,        \* beep: the current (or last) process call
    beep_out,         \* beep: the output channel buffers handed to process
    beep_hist         \* beep history: stores and finished calls

coreVars == <<nodes, schedule_data, user_cx, from_graph, to_graph, running, pc,
              aborted, status, call, output, frames_processed, block_frames,
              blocks, next_id, issued, stops_sent, received, out_log,
              audio_dropped, last>>

beepVars == <<flags, node, beep, beep_pc, beep_call, beep_out, beep_hist>>

vars == <<coreVars, beepVars>>

procVars == <<nodes, schedule_data, user_cx, running>>
callVars == <<call, output, frames_processed, block_frames, blocks>>
ctlVars == <<next_id, issued, stops_sent>>

\* ------------------------------------------------------------------ arena

ArenaContains(arena, id) ==
    Slot(id) \in DOMAIN arena /\ arena[Slot(id)].gen = Gen(id)

\* A variant that removes whatever sits at the slot.
ArenaRemoveAnyGen(arena, id) ==
    IF Slot(id) \in DOMAIN arena
    THEN [arena |-> [s \in DOMAIN arena \ {Slot(id)} |-> arena[s]],
          removed |-> <<arena[Slot(id)].proc>>]
    ELSE [arena |-> arena, removed |-> <<>>]

\* thunderdome Arena::remove: only an entry of the same generation is removed.
ArenaRemove(arena, id) ==
    IF ArenaContains(arena, id)
    THEN [arena |-> [s \in DOMAIN arena \ {Slot(id)} |-> arena[s]],
          removed |-> <<arena[Slot(id)].proc>>]
    ELSE [arena |-> arena, removed |-> <<>>]

\* thunderdome Arena::insert_at: the slot takes the value and the generation of
\* the index; a value that was there is replaced and handed back.
ArenaInsertAt(arena, id, proc) ==
    [arena |-> [s \in DOMAIN arena \cup {Slot(id)} |->
                   IF s = Slot(id) THEN [gen |-> Gen(id), proc |-> proc]
                   ELSE arena[s]],
     old |-> IF Slot(id) \in DOMAIN arena THEN <<arena[Slot(id)].proc>>
             ELSE <<>>]

ArenaProcs(arena) == {arena[s].proc : s \in DOMAIN arena}

EmptyArena == [s \in {} |-> 0]


\* ------------------------------------------------------- ScheduleHeapData

\* A node processor is a heap object; it is named by the NodeID it was
\* activated for and the schedule that carried it to the audio thread.
Proc(id, sched) == [node |-> id, sched |-> sched]

\* The bundle the control side boxes and sends: the schedule (its
\* max_block_frames and the node IDs it dispatches, in order), the processors
\* to install, the node IDs to evict and the vector for evicted processors.
ScheduleHeapData(id, mbf, new, remove, entries) ==
    [id |-> id,
     max_block_frames |-> mbf,
     entries |-> entries,
     new_node_processors |-> [i \in 1..Len(new) |-> <<new[i], Proc(new[i], id)>>],
     nodes_to_remove |-> remove,
     removed_node_processors |-> <<>>]

NewSchedule(data) == [type |-> "NewSchedule", data |-> <<data>>]
Stop == [type |-> "Stop", data |-> <<>>]

ReturnSchedule(data) ==
    [type |-> "ReturnSchedule", data |-> <<data>>,
     nodes |-> EmptyArena, user_cx |-> FALSE]
Dropped(arena, sched, cx) ==
    [type |-> "Dropped", data |-> sched, nodes |-> arena, user_cx |-> cx]

\* -------------------------------------------------------- poll_messages

\* A variant that evicts the nodes and pushes no pair.
RECURSIVE RemoveNodesNoPush(_, _, _)
RemoveNodesNoPush(arena, ids, removed) ==
    IF ids = <<>> THEN [arena |-> arena, removed |-> removed]
    ELSE RemoveNodesNoPush(ArenaRemove(arena, Head(ids)).arena, Tail(ids),
                           removed)

\* The loop over new.nodes_to_remove: every node found in the arena leaves it
\* and its (node_id, processor) pair is pushed onto `removed`.
RECURSIVE RemoveNodes(_, _, _)
RemoveNodes(arena, ids, removed) ==
    IF ids = <<>> THEN [arena |-> arena, removed |-> removed]
    ELSE LET r == ArenaRemove(arena, Head(ids)) IN
         RemoveNodes(r.arena, Tail(ids),
                     IF r.removed = <<>> THEN removed
                     ELSE Append(removed, <<Head(ids), r.removed[1]>>))

\* A variant without the assertion on what insert_at hands back.
RECURSIVE InstallNodesOverwrite(_, _)
InstallNodesOverwrite(arena, pairs) ==
    IF pairs = <<>> THEN [arena |-> arena, ok |-> TRUE, old |-> <<>>]
    ELSE InstallNodesOverwrite(
             ArenaInsertAt(arena, Head(pairs)[1], Head(pairs)[2]).arena,
             Tail(pairs))

\* The loop over new.new_node_processors.drain(..): insert_at for each pair;
\* the first insert that finds its slot occupied fails the assertion, after
\* the slot was overwritten.
RECURSIVE InstallNodes(_, _)
InstallNodes(arena, pairs) ==
    IF pairs = <<>> THEN [arena |-> arena, ok |-> TRUE, old |-> <<>>]
    ELSE LET r == ArenaInsertAt(arena, Head(pairs)[1], Head(pairs)[2]) IN
         IF r.old /= <<>> THEN [arena |-> r.arena, ok |-> FALSE, old |-> r.old]
         ELSE InstallNodes(r.arena, Tail(pairs))

\* std::mem::swap of the two removed_node_processors vectors.
SwapRemoved(old, new) ==
    [old |-> [old EXCEPT !.removed_node_processors = new.removed_node_processors],
     new |-> [new EXCEPT !.removed_node_processors = old.removed_node_processors]]

\* A variant that sends the new bundle back instead of the old one.
EvictForOldReturnsNew(arena, old, new) ==
    LET sw == SwapRemoved(old, new)
        rm == RemoveNodes(arena, new.nodes_to_remove,
                          sw.old.removed_node_processors)
    IN [arena |-> rm.arena,
        old |-> [sw.new EXCEPT !.removed_node_processors = rm.removed],
        new |-> sw.new]

\* A variant whose evictions have not reached the arena when the new
\* processors are installed.
EvictForOldLate(arena, old, new) ==
    LET sw == SwapRemoved(old, new)
        rm == RemoveNodes(arena, new.nodes_to_remove,
                          sw.old.removed_node_processors)
    IN [arena |-> arena,
        old |-> [sw.old EXCEPT !.removed_node_processors = rm.removed],
        new |-> sw.new]

\* The `if let Some(old) = self.schedule_data.take()` branch, up to the push:
\* the arena after the evictions, the old bundle as it is sent back, and the
\* new bundle after the swap.
EvictForOld(arena, old, new) ==
    LET sw == SwapRemoved(old, new)
        rm == RemoveNodes(arena, new.nodes_to_remove,
                          sw.old.removed_node_processors)
    IN [arena |-> rm.arena,
        old |-> [sw.old EXCEPT !.removed_node_processors = rm.removed],
        new |-> sw.new]

\* A variant without the assertion.
ScheduleFitsAny(new) == TRUE

\* assert_eq!(new.schedule.max_block_frames(), stream_info.max_block_frames)
ScheduleFits(new) == new.max_block_frames = StreamMaxBlockFrames

\* Variants of the full-queue test: one slot early, and never.
QueueFullEarly(queue) == Len(queue) + 1 >= OutCapacity
QueueNeverFull(queue) == FALSE

\* rtrb Producer::push fails, handing the value back, when the ring is full.
QueueFull(queue) == Len(queue) >= OutCapacity

\* A variant that leaves the slot empty after the take().
InstallNothing(new) == <<>>

\* self.schedule_data = Some(new_schedule_data), its new_node_processors
\* drained.
InstallSchedule(new) == <<[new EXCEPT !.new_node_processors = <<>>]>>

\* What the last audio-thread step was, with the state it started from.
Step(op, msg) ==
    [op |-> op, msg |-> msg, pre_nodes |-> nodes,
     pre_schedule |-> schedule_data, pre_out_len |-> Len(to_graph),
     pre_running |-> running]

Abort(reason) ==
    /\ aborted' = reason
    /\ pc' = "aborted"

Polling == pc \in {"poll", "block_poll"}

\* poll_messages pops ContextToProcessorMsg::Stop.
RecvStop ==
    /\ Polling
    /\ from_graph /= <<>>
    /\ Head(from_graph).type = "Stop"
    /\ from_graph' = Tail(from_graph)
    /\ running' = FALSE
    /\ last' = Step("Stop", <<Head(from_graph)>>)
    /\ blocks' = IF pc = "block_poll"
                 THEN [blocks EXCEPT ![Len(blocks)].stop = TRUE]
                 ELSE blocks
    /\ UNCHANGED <<nodes, schedule_data, user_cx, to_graph, pc, aborted,
                   status, call, output, frames_processed, block_frames,
                   ctlVars, received, out_log, audio_dropped>>
    /\ UNCHANGED beepVars

\* poll_messages pops ContextToProcessorMsg::NewSchedule.
RecvNewSchedule ==
    /\ Polling
    /\ from_graph /= <<>>
    /\ Head(from_graph).type = "NewSchedule"
    /\ from_graph' = Tail(from_graph)
    /\ last' = Step("NewSchedule", <<Head(from_graph)>>)
    /\ LET new == Head(from_graph).data[1]
           hasOld == schedule_data /= <<>>
           ev == IF hasOld THEN EvictForOld(nodes, schedule_data[1], new)
                 ELSE [arena |-> nodes, old |-> new, new |-> new]
           inst == InstallNodes(ev.arena, ev.new.new_node_processors)
       IN
       /\ received' = received \cup {new}
       /\ IF ~ScheduleFits(new)
          THEN /\ Abort("max_block_frames")
               /\ UNCHANGED <<nodes, schedule_data, to_graph, out_log>>
          ELSE IF hasOld /\ QueueFull(to_graph)
          THEN \* push(..).unwrap() on a full queue
               /\ Abort("queue_full")
               /\ nodes' = ev.arena
               /\ schedule_data' = <<>>
               /\ UNCHANGED <<to_graph, out_log>>
          ELSE /\ IF hasOld
                  THEN /\ to_graph' = Append(to_graph, ReturnSchedule(ev.old))
                       /\ out_log' = Append(out_log, ReturnSchedule(ev.old))
                  ELSE UNCHANGED <<to_graph, out_log>>
               /\ nodes' = inst.arena
               /\ IF inst.ok
                  THEN /\ schedule_data' = InstallSchedule(ev.new)
                       /\ UNCHANGED <<pc, aborted>>
                  ELSE /\ Abort("collision")
                       /\ schedule_data' = <<>>
    /\ UNCHANGED <<user_cx, running, status, callVars, ctlVars, audio_dropped>>
    /\ UNCHANGED beepVars


\* ---------------------------------------------------- process_interleaved

\* entry_running and entry_received are history: `running` when the call
\* began and, for a call that began stopped, the number of NewSchedule
\* messages received until then.
NoCall == [frames |-> 0, num_in_channels |-> 0, num_out_channels |-> 0,
           input_len |-> 0, entry_running |-> TRUE, entry_received |-> 0]

\* output.fill(0.0)
ZeroFill(buf) == [i \in 1..Len(buf) |-> Zero]

\* A variant that starts the fill one sample late.
ZeroTailLate(buf, from) ==
    [i \in 1..Len(buf) |-> IF i > from + 1 THEN Zero ELSE buf[i]]

\* output[from..].fill(0.0), `from` a 0-based sample offset
ZeroTail(buf, from) == [i \in 1..Len(buf) |-> IF i > from THEN Zero ELSE buf[i]]

\* interleave(..) into output[lo..hi] (0-based, hi exclusive): every sample of
\* the slice is overwritten with what the graph outputs hold.
WriteSlice(buf, lo, hi, v) ==
    [i \in 1..Len(buf) |-> IF i > lo /\ i <= hi THEN v ELSE buf[i]]

Return(st) ==
    /\ status' = st
    /\ pc' = "returned"

\* The audio backend calls process_interleaved with `frames` in frameCounts,
\* channel counts up to maxChannels and buffers up to maxExtra samples longer
\* than frames * channels; the call starts with self.poll_messages().
ProcessInterleaved(frameCounts, maxChannels, maxExtra) ==
    /\ pc = "idle"
    /\ \E f \in frameCounts, ni \in 1..maxChannels, no \in 1..maxChannels,
          in_extra \in 0..maxExtra, out_extra \in 0..maxExtra :
          /\ call' = [frames |-> f, num_in_channels |-> ni,
                      num_out_channels |-> no,
                      input_len |-> f * ni + in_extra,
                      entry_running |-> running,
                      entry_received |-> IF running THEN 0
                                        ELSE Cardinality(received)]
          /\ output' = [i \in 1..(f * no + out_extra) |-> Garbage]
    /\ frames_processed' = 0
    /\ block_frames' = 0
    /\ blocks' = <<>>
    /\ status' = "none"
    /\ pc' = "poll"
    /\ last' = Step("Call", <<>>)
    /\ UNCHANGED <<procVars, from_graph, to_graph, aborted, ctlVars, received,
                   out_log, audio_dropped>>
    /\ UNCHANGED beepVars

\* Variants of the order: the schedule test before the running test, and the
\* length assertions before the early returns.
EarlyExitScheduleFirst(isRunning, hasSchedule, frames, lengthsOk) ==
    IF ~hasSchedule \/ frames = 0 THEN "Ok"
    ELSE IF ~isRunning THEN "DropProcessor"
    ELSE IF ~lengthsOk THEN "assert"
    ELSE "loop"
EarlyExitAssertFirst(isRunning, hasSchedule, frames, lengthsOk) ==
    IF ~isRunning THEN "DropProcessor"
    ELSE IF ~lengthsOk THEN "assert"
    ELSE IF ~hasSchedule \/ frames = 0 THEN "Ok"
    ELSE "loop"

\* A variant without the test of `running`.
EarlyExitNoRunningTest(isRunning, hasSchedule, frames, lengthsOk) ==
    IF ~hasSchedule \/ frames = 0 THEN "Ok"
    ELSE IF ~lengthsOk THEN "assert"
    ELSE "loop"

\* The order of the checks between the first poll_messages and the loop.
EarlyExit(isRunning, hasSchedule, frames, lengthsOk) ==
    IF ~isRunning THEN "DropProcessor"
    ELSE IF ~hasSchedule \/ frames = 0 THEN "Ok"
    ELSE IF ~lengthsOk THEN "assert"
    ELSE "loop"

\* The first poll_messages found the queue empty: the early returns and the
\* two length assertions of process_interleaved.
AfterFirstPoll ==
    /\ pc = "poll"
    /\ from_graph = <<>>
    /\ last' = Step("AfterFirstPoll", <<>>)
    /\ LET exit == EarlyExit(running, schedule_data /= <<>>, call.frames,
                     /\ call.input_len = call.frames * call.num_in_channels
                     /\ Len(output) = call.frames * call.num_out_channels)
       IN
       IF exit \in {"DropProcessor", "Ok"}
       THEN /\ output' = ZeroFill(output)
            /\ Return(exit)
            /\ UNCHANGED aborted
       ELSE IF exit = "assert"
       THEN /\ Abort("length_assert")
            /\ UNCHANGED <<output, status>>
       ELSE /\ pc' = "loop"
            /\ UNCHANGED <<output, status, aborted>>
    /\ UNCHANGED <<procVars, from_graph, to_graph, call, frames_processed,
                   block_frames, blocks, ctlVars, received, out_log,
                   audio_dropped>>
    /\ UNCHANGED beepVars

\* One entry of `blocks`: the frame range of the sub-block, the input and
\* output slices it used, and the schedule each of its three steps ran on
\* (0: the step did not run); `stop` tells that process_block's poll_messages
\* popped a Stop in this sub-block.
BlockRecord(start, n, sched) ==
    [start |-> start, frames |-> n,
     in_lo |-> start * call.num_in_channels,
     in_hi |-> (start + n) * call.num_in_channels,
     out_lo |-> 0, out_hi |-> 0,
     prepared |-> sched, processed |-> 0, dispatched |-> <<>>, read |-> 0,
     stop |-> FALSE]

\* A variant without the min.
BlockFramesNoMin(frames, processed) == StreamMaxBlockFrames

\* (frames - frames_processed).min(self.stream_info.max_block_frames)
BlockFrames(frames, processed) == Min(frames - processed, StreamMaxBlockFrames)

\* Loop head with frames_processed < frames: block_frames and
\* schedule.prepare_graph_inputs on the active schedule, then process_block
\* starts with self.poll_messages().
PrepareGraphInputs ==
    /\ pc = "loop"
    /\ frames_processed < call.frames
    /\ LET n == BlockFrames(call.frames, frames_processed) IN
       /\ block_frames' = n
       /\ blocks' = Append(blocks,
                           BlockRecord(frames_processed, n, schedule_data[1].id))
    /\ pc' = "block_poll"
    /\ last' = Step("PrepareGraphInputs", <<>>)
    /\ UNCHANGED <<procVars, from_graph, to_graph, aborted, status, call,
                   output, frames_processed, ctlVars, received, out_log,
                   audio_dropped>>
    /\ UNCHANGED beepVars

\* Loop head with frames_processed >= frames: the status after the loop.
LoopExit ==
    /\ pc = "loop"
    /\ ~(frames_processed < call.frames)
    /\ Return(IF running THEN "Ok" ELSE "DropProcessor")
    /\ last' = Step("LoopExit", <<>>)
    /\ UNCHANGED <<procVars, from_graph, to_graph, aborted, callVars, ctlVars,
                   received, out_log, audio_dropped>>
    /\ UNCHANGED beepVars

\* process_block after its poll_messages found the queue empty:
\* schedule.process dispatches every entry to self.nodes[node_id.idx].
ProcessBlock ==
    /\ pc = "block_poll"
    /\ from_graph = <<>>
    /\ last' = Step("ProcessBlock", <<>>)
    /\ IF ~running \/ schedule_data = <<>>
       THEN /\ pc' = "read"
            /\ UNCHANGED <<blocks, aborted>>
       ELSE LET sched == schedule_data[1] IN
            IF \A i \in 1..Len(sched.entries) :
                  ArenaContains(nodes, sched.entries[i])
            THEN /\ blocks' = [blocks EXCEPT
                       ![Len(blocks)].processed = sched.id,
                       ![Len(blocks)].dispatched = sched.entries]
                 /\ pc' = "read"
                 /\ UNCHANGED aborted
            ELSE /\ Abort("index")
                 /\ UNCHANGED blocks
    /\ UNCHANGED <<procVars, from_graph, to_graph, status, call, output,
                   frames_processed, block_frames, ctlVars, received, out_log,
                   audio_dropped>>
    /\ UNCHANGED beepVars

\* schedule.read_graph_outputs into the output slice of the sub-block, then
\* the `if !self.running` tail fill and break, or frames_processed += n.
ReadGraphOutputs ==
    /\ pc = "read"
    /\ last' = Step("ReadGraphOutputs", <<>>)
    /\ LET lo == frames_processed * call.num_out_channels
           hi == (frames_processed + block_frames) * call.num_out_channels
           written == WriteSlice(output, lo, hi, Len(blocks))
       IN
       /\ blocks' = [blocks EXCEPT ![Len(blocks)].read = schedule_data[1].id,
                                   ![Len(blocks)].out_lo = lo,
                                   ![Len(blocks)].out_hi = hi]
       /\ IF ~running
          THEN /\ output' = IF frames_processed < call.frames
                            THEN ZeroTail(written, lo) ELSE written
               /\ Return("DropProcessor")
               /\ UNCHANGED frames_processed
          ELSE /\ output' = written
               /\ frames_processed' = frames_processed + block_frames
               /\ pc' = "loop"
               /\ UNCHANGED status
    /\ UNCHANGED <<procVars, from_graph, to_graph, aborted, call, block_frames,
                   ctlVars, received, out_log, audio_dropped>>
    /\ UNCHANGED beepVars

\* process_interleaved has returned: the borrows of `input` and `output` end
\* and the locals of the call are gone.
CallbackDone ==
    /\ pc = "returned"
    /\ pc' = "idle"
    /\ call' = NoCall
    /\ output' = <<>>
    /\ frames_processed' = 0
    /\ block_frames' = 0
    /\ blocks' = <<>>
    /\ last' = Step("CallbackDone", <<>>)
    /\ UNCHANGED <<procVars, from_graph, to_graph, aborted, status, ctlVars,
                   received, out_log, audio_dropped>>
    /\ UNCHANGED beepVars

\* ------------------------------------------------------------------ Drop

HeapOf(arena, sched, cx) ==
    [nodes |-> ArenaProcs(arena),
     schedules |-> {sched[i].id : i \in 1..Len(sched)},
     user_cx |-> cx]

\* Drop for FirewheelProcessor, run by the owner of the processor between
\* two calls.
DropProcessor ==
    /\ pc = "idle"
    /\ last' = Step("Drop", <<>>)
    /\ nodes' = EmptyArena
    /\ schedule_data' = <<>>
    /\ user_cx' = FALSE
    /\ IF ~QueueFull(to_graph)
       THEN /\ to_graph' = Append(to_graph,
                                  Dropped(nodes, schedule_data, user_cx))
            /\ out_log' = Append(out_log,
                                 Dropped(nodes, schedule_data, user_cx))
            /\ UNCHANGED audio_dropped
       ELSE \* `let _ =` drops the message the push handed back
            /\ audio_dropped' = Append(audio_dropped,
                                       HeapOf(nodes, schedule_data, user_cx))
            /\ UNCHANGED <<to_graph, out_log>>
    /\ pc' = "dropped"
    /\ UNCHANGED <<from_graph, running, aborted, status, callVars, ctlVars,
                   received>>
    /\ UNCHANGED beepVars

\* ---------------------------------------------------------- control side

\* The control thread pushes NewSchedule(Box<ScheduleHeapData>), one of its
\* first maxCount: a schedule compiled for max_block_frames in `mbfs`, with
\* lists of at most maxLen node IDs. A NodeID is a generational handle: one that was given to a processor
\* is never given to another. The schedule dispatches nodes that were
\* activated, now or earlier; whether they are still installed is not assured.
PushNewSchedule(maxCount, mbfs, maxLen) ==
    /\ next_id <= maxCount
    /\ Len(from_graph) < InCapacity
    /\ \E mbf \in mbfs,
          new \in DistinctSeqs(NodeIDs \ issued, maxLen),
          remove \in DistinctSeqs(NodeIDs, maxLen) :
       \E entries \in DistinctSeqs(issued \cup Range(new), maxLen) :
          /\ from_graph' = Append(from_graph,
                NewSchedule(ScheduleHeapData(next_id, mbf, new, remove, entries)))
          /\ issued' = issued \cup Range(new)
    /\ next_id' = next_id + 1
    /\ UNCHANGED <<procVars, to_graph, pc, aborted, status, callVars,
                   stops_sent, received, out_log, audio_dropped, last>>
    /\ UNCHANGED beepVars

\* The node IDs of the installed processors.
IdsOf(arena) == {<<s, arena[s].gen>> : s \in DOMAIN arena}

\* The control side's book of the installed node IDs: those the processor
\* holds once it has drained `queue`, each NewSchedule taking out its
\* nodes_to_remove and adding the nodes of its new_node_processors.
RECURSIVE ViewAfter(_, _)
ViewAfter(ids, queue) ==
    IF queue = <<>> THEN ids
    ELSE IF Head(queue).type /= "NewSchedule" THEN ViewAfter(ids, Tail(queue))
    ELSE LET d == Head(queue).data[1] IN
         ViewAfter((ids \ Range(d.nodes_to_remove)) \cup
                      {d.new_node_processors[i][1] :
                          i \in 1..Len(d.new_node_processors)},
                   Tail(queue))

\* As PushNewSchedule, with a schedule that is well formed: it dispatches
\* only nodes that are installed once its nodes_to_remove are taken out and
\* its new_node_processors are added.
PushWellFormedSchedule(maxCount, mbfs, maxLen) ==
    /\ next_id <= maxCount
    /\ Len(from_graph) < InCapacity
    /\ \E mbf \in mbfs,
          new \in DistinctSeqs(NodeIDs \ issued, maxLen),
          remove \in DistinctSeqs(NodeIDs, maxLen) :
       \E entries \in DistinctSeqs(
                          (ViewAfter(IdsOf(nodes), from_graph) \ Range(remove))
                             \cup Range(new), maxLen) :
          /\ from_graph' = Append(from_graph,
                NewSchedule(ScheduleHeapData(next_id, mbf, new, remove, entries)))
          /\ issued' = issued \cup Range(new)
    /\ next_id' = next_id + 1
    /\ UNCHANGED <<procVars, to_graph, pc, aborted, status, callVars,
                   stops_sent, received, out_log, audio_dropped, last>>
    /\ UNCHANGED beepVars

\* The control thread pushes Stop.
SendStop ==
    /\ stops_sent < MaxStops
    /\ Len(from_graph) < InCapacity
    /\ from_graph' = Append(from_graph, Stop)
    /\ stops_sent' = stops_sent + 1
    /\ UNCHANGED <<procVars, to_graph, pc, aborted, status, callVars, next_id,
                   issued, received, out_log, audio_dropped, last>>
    /\ UNCHANGED beepVars

\* The control thread pops one ProcessorToContextMsg and drops what it holds.
ControlPop ==
    /\ to_graph /= <<>>
    /\ to_graph' = Tail(to_graph)
    /\ UNCHANGED <<procVars, from_graph, pc, aborted, status, callVars,
                   ctlVars, received, out_log, audio_dropped, last>>
    /\ UNCHANGED beepVars

\* ---------------------------------------------------------------- beep_test

\* An oscillator sample sin(phasor * TAU) * gain, named by its phase: 0.0 at
\* phase 0 or gain 0.0, otherwise a non-zero value that the phase determines.
ToneBase == 100
Tone(phasor, gain) == IF gain = 0 \/ phasor = 0 THEN Zero ELSE ToneBase + phasor

\* freq_hz.clamp(20.0, 20_000.0), in units of sample_rate / PhaseSteps.
FreqLo == 1
FreqHi == PhaseSteps + 1
Clamp(x, lo, hi) == IF x < lo THEN lo ELSE IF x > hi THEN hi ELSE x

\* self.freq_hz / sample_rate as f32, in 1 / PhaseSteps of a cycle per frame.
PhasorInc(freq_hz, sample_rate) == (freq_hz * PhaseSteps) \div sample_rate

\* A variant that gives the processor a flag of its own, initialised from the
\* node's.
ArcFresh(cells, ref) == [cells |-> Append(cells, cells[ref]), ref |-> Len(cells) + 1]

\* Arc::clone(&self.enabled): another handle to the same AtomicBool.
ArcClone(cells, ref) == [cells |-> cells, ref |-> ref]

\* (self.phasor + self.phasor_inc).fract()
Fract(phasor) == phasor % PhaseSteps

\* A variant that starts every call at phase 0.
GenerateFromZero(phasor, phasor_inc, gain, frames) ==
    [samples |-> [i \in 1..frames |-> Tone(Fract((i - 1) * phasor_inc), gain)],
     phases |-> [i \in 1..frames |-> Fract((i - 1) * phasor_inc)],
     phasor |-> Fract(frames * phasor_inc)]

\* The loop over out1[..frames]: each sample is taken at the current phase,
\* then the phase is advanced and wrapped; `phases` lists the phases used.
RECURSIVE Generate(_, _, _, _)
Generate(phasor, phasor_inc, gain, frames) ==
    IF frames = 0 THEN [samples |-> <<>>, phases |-> <<>>, phasor |-> phasor]
    ELSE LET rest == Generate(Fract(phasor + phasor_inc), phasor_inc, gain,
                              frames - 1)
         IN [samples |-> <<Tone(phasor, gain)>> \o rest.samples,
             phases |-> <<phasor>> \o rest.phases,
             phasor |-> rest.phasor]

\* buf[..frames] = samples[..frames]; the rest of the buffer is left alone.
WriteFrames(buf, samples, frames) ==
    [i \in 1..Len(buf) |-> IF i <= frames THEN samples[i] ELSE buf[i]]

\* firewheel_core::util::clear_all_outputs on the channels it is given: the
\* first `frames` samples of each become 0.0.
ClearAllOutputs(frames, outputs) ==
    [c \in 1..Len(outputs) |->
        WriteFrames(outputs[c], [i \in 1..frames |-> Zero], frames)]

NoBeepCall == [op |-> "none", frames |-> 0, loaded |-> <<>>,
               stored |-> FALSE, set_at_start |-> FALSE,
               entry_phasor |-> 0, prev_left |-> 0, phases |-> <<>>]

\* BeepTestNode::new
BeepTestNodeNew ==
    /\ node = <<>>
    /\ \E freq_hz \in 0..MaxFreq, gain \in {0, 1}, enabled \in BOOLEAN :
          /\ flags' = <<enabled>>
          /\ node' = <<[enabled |-> 1,
                        freq_hz |-> Clamp(freq_hz, FreqLo, FreqHi),
                        gain |-> gain]>>
          /\ beep_hist' = [beep_hist EXCEPT !.last_set = enabled,
                                            !.init = enabled]
    /\ UNCHANGED <<beep, beep_pc, beep_call, beep_out, coreVars>>

\* BeepTestNode::enabled
Enabled == flags[node[1].enabled]

\* BeepTestNode::set_enabled, from the control thread at any time.
SetEnabled ==
    /\ node /= <<>>
    /\ \E enabled \in BOOLEAN :
          /\ flags' = [flags EXCEPT ![node[1].enabled] = enabled]
          /\ beep_hist' = [beep_hist EXCEPT
                              !.last_set = enabled,
                              !.set_after = beep_hist.set_after \/ beep /= <<>>]
    /\ beep_call' = IF beep_pc = "load"
                    THEN [beep_call EXCEPT !.stored = TRUE]
                    ELSE beep_call
    /\ UNCHANGED <<node, beep, beep_pc, beep_out, coreVars>>

\* AudioNode::activate: the processor, and the channel buffers the schedule
\* will hand to it.
Activate ==
    /\ node /= <<>>
    /\ beep = <<>>
    /\ LET arc == ArcClone(flags, node[1].enabled) IN
       /\ flags' = arc.cells
       /\ beep' = <<[enabled |-> arc.ref,
                     phasor |-> 0,
                     phasor_inc |-> PhasorInc(node[1].freq_hz, PhaseSteps),
                     gain |-> node[1].gain]>>
    /\ \E num_outputs \in 0..MaxBeepOutputs :
          beep_out' = [c \in 1..num_outputs |->
                          [i \in 1..BeepMaxBlockFrames |-> Zero]]
    /\ UNCHANGED <<node, beep_pc, beep_call, beep_hist, coreVars>>

\* A process call is over: what it was is kept in the history.
BeepReturn(op) ==
    /\ beep_pc' = "idle"
    /\ beep_hist' = [beep_hist EXCEPT
                        !.prev = <<beep_hist.prev[2], beep_hist.prev[3], op>>,
                        !.left = IF op = "enabled" THEN beep'[1].phasor
                                 ELSE beep_hist.left]

\* BeepTestProcessor::process is called with `frames`: outputs.split_first_mut().
Process ==
    /\ beep_pc = "idle"
    /\ beep /= <<>>
    /\ \E frames \in 1..BeepMaxBlockFrames :
          beep_call' = [NoBeepCall EXCEPT
                           !.op = IF beep_out = <<>> THEN "no_outputs"
                                  ELSE "start",
                           !.frames = frames,
                           !.set_at_start = beep_hist.last_set,
                           !.entry_phasor = beep[1].phasor,
                           !.prev_left = beep_hist.left]
    /\ IF beep_out = <<>>
       THEN BeepReturn("no_outputs")
       ELSE /\ beep_pc' = "load"
            /\ UNCHANGED beep_hist
    /\ UNCHANGED <<flags, node, beep, beep_out, coreVars>>

\* self.enabled.load(Ordering::Relaxed), and the disabled branch:
\* clear_all_outputs on the channels after the first.
Load ==
    /\ beep_pc = "load"
    /\ LET enabled == flags[beep[1].enabled] IN
       IF enabled
       THEN /\ beep_call' = [beep_call EXCEPT !.loaded = <<enabled>>]
            /\ beep_pc' = "generate"
            /\ UNCHANGED <<beep_out, beep_hist>>
       ELSE /\ beep_call' = [beep_call EXCEPT !.loaded = <<enabled>>,
                                              !.op = "disabled"]
            /\ beep_out' = <<Head(beep_out)>> \o
                           ClearAllOutputs(beep_call.frames, Tail(beep_out))
            /\ BeepReturn("disabled")
    /\ UNCHANGED <<flags, node, beep, coreVars>>

\* The enabled branch: the tone into out1[..frames], then the copy of
\* out1[..frames] into every other channel.
ProcessEnabled ==
    /\ beep_pc = "generate"
    /\ LET g == Generate(beep[1].phasor, beep[1].phasor_inc, beep[1].gain,
                         beep_call.frames)
           out1 == WriteFrames(Head(beep_out), g.samples, beep_call.frames)
       IN
       /\ beep' = <<[beep[1] EXCEPT !.phasor = g.phasor]>>
       /\ beep_out' = [c \in 1..Len(beep_out) |->
                          IF c = 1 THEN out1
                          ELSE WriteFrames(beep_out[c], out1, beep_call.frames)]
       /\ beep_call' = [beep_call EXCEPT
                           !.op = "enabled",
                           !.phases = g.phases]
    /\ BeepReturn("enabled")
    /\ UNCHANGED <<flags, node, coreVars>>

\* ------------------------------------------------------------ specification

\* FirewheelProcessor::new, with both queues empty; no beep node yet.
Init ==
    /\ nodes = EmptyArena
    /\ schedule_data = <<>>
    /\ user_cx = TRUE
    /\ from_graph = <<>>
    /\ to_graph = <<>>
    /\ running = TRUE
    /\ pc = "idle"
    /\ aborted = "none"
    /\ status = "none"
    /\ call = NoCall
    /\ output = <<>>
    /\ frames_processed = 0
    /\ block_frames = 0
    /\ blocks = <<>>
    /\ next_id = 1
    /\ issued = {}
    /\ stops_sent = 0
    /\ received = {}
    /\ out_log = <<>>
    /\ audio_dropped = <<>>
    /\ last = [op |-> "new", msg |-> <<>>, pre_nodes |-> EmptyArena,
               pre_schedule |-> <<>>, pre_out_len |-> 0,
               pre_running |-> TRUE]
    /\ flags = <<>>
    /\ node = <<>>
    /\ beep = <<>>
    /\ beep_pc = "idle"
    /\ beep_call = NoBeepCall
    /\ beep_out = <<>>
    /\ beep_hist = [last_set |-> FALSE, init |-> FALSE, set_after |-> FALSE,
                    prev |-> <<"none", "none", "none">>, left |-> 0]

\* Callbacks of every shape; schedules that only differ in their identity.
Call == ProcessInterleaved(0..MaxFrames, MaxChannels, 1)
SendNewSchedule == PushNewSchedule(MaxSchedules, {StreamMaxBlockFrames}, 0)

Next ==
    \/ Call
    \/ RecvStop
    \/ RecvNewSchedule
    \/ AfterFirstPoll
    \/ PrepareGraphInputs
    \/ ProcessBlock
    \/ ReadGraphOutputs
    \/ LoopExit
    \/ CallbackDone
    \/ DropProcessor
    \/ SendNewSchedule
    \/ SendStop
    \/ ControlPop

Spec == Init /\ [][Next]_vars

\* The first SwapSchedules schedules of every shape, also ill-formed ones;
\* mono callbacks with exact buffer lengths.
SwapCall == ProcessInterleaved({SwapFrames}, 1, 0)
SendAnySchedule ==
    PushNewSchedule(SwapSchedules,
                    {StreamMaxBlockFrames, StreamMaxBlockFrames + 1}, MaxListLen)

NextSwap ==
    \/ SwapCall
    \/ RecvStop
    \/ RecvNewSchedule
    \/ AfterFirstPoll
    \/ PrepareGraphInputs
    \/ ProcessBlock
    \/ ReadGraphOutputs
    \/ LoopExit
    \/ CallbackDone
    \/ DropProcessor
    \/ SendAnySchedule
    \/ SendNewSchedule
    \/ SendStop
    \/ ControlPop

SpecSwap == Init /\ [][NextSwap]_vars

\* As SpecSwap, with a control side that sends well-formed schedules only.
SendWellFormedSchedule ==
    PushWellFormedSchedule(SwapSchedules,
                           {StreamMaxBlockFrames, StreamMaxBlockFrames + 1},
                           MaxListLen)

NextWell ==
    \/ SwapCall
    \/ RecvStop
    \/ RecvNewSchedule
    \/ AfterFirstPoll
    \/ PrepareGraphInputs
    \/ ProcessBlock
    \/ ReadGraphOutputs
    \/ LoopExit
    \/ CallbackDone
    \/ DropProcessor
    \/ SendWellFormedSchedule
    \/ SendNewSchedule
    \/ SendStop
    \/ ControlPop

SpecWell == Init /\ [][NextWell]_vars

\* The beep node alone: built, activated, switched from the control thread
\* and processed on the audio thread.
NextBeep ==
    \/ BeepTestNodeNew
    \/ SetEnabled
    \/ Activate
    \/ Process
    \/ Load
    \/ ProcessEnabled

SpecBeep == Init /\ [][NextBeep]_vars


\* ------------------------------------------------------------------ claims

ReturnedData == {out_log[i].data[1] :
                   i \in {j \in 1..Len(out_log) : out_log[j].type = "ReturnSchedule"}}

PairsOf(data) ==
    Range(data.new_node_processors) \cup Range(data.removed_node_processors)

\* The last audio-thread step handled a NewSchedule that replaced a schedule
\* and got as far as the push.
Swapped ==
    /\ last.op = "NewSchedule"
    /\ last.pre_schedule /= <<>>
    /\ aborted \in {"none", "collision"}

C2_HeapConservation ==
    pc \notin {"aborted", "dropped"} =>
        LET heldIds == {schedule_data[i].id : i \in 1..Len(schedule_data)}
            backIds == {d.id : d \in ReturnedData}
            heldProcs == ArenaProcs(nodes) \cup
                         {p[2] : p \in UNION {PairsOf(schedule_data[i]) :
                                                i \in 1..Len(schedule_data)}}
            backProcs == {p[2] : p \in UNION {PairsOf(d) : d \in ReturnedData}}
            gotProcs == {p[2] : p \in UNION {PairsOf(d) : d \in received}}
        IN /\ {d.id : d \in received} = heldIds \cup backIds
           /\ heldIds \cap backIds = {}
           /\ gotProcs = heldProcs \cup backProcs
           /\ heldProcs \cap backProcs = {}
           /\ audio_dropped = <<>>

C2_Witness ==
    /\ pc \notin {"aborted", "dropped"}
    /\ nodes /= EmptyArena
    /\ \E d \in ReturnedData : d.removed_node_processors /= <<>>


\* C3 (as claimed): in every sub-block, the schedule whose graph inputs were
\* filled is the schedule process_block executes and the schedule whose
\* outputs are copied to the output.
C3_OneSchedulePerBlock ==
    \A i \in 1..Len(blocks) :
        /\ blocks[i].processed /= 0 => blocks[i].processed = blocks[i].prepared
        /\ blocks[i].read /= 0 => blocks[i].read = blocks[i].prepared

\* Number of sub-blocks of a call of `frames` frames, and the 1-based number
\* of the sub-block that frame f (0-based) falls in.
NumBlocks(frames) == (frames + StreamMaxBlockFrames - 1) \div StreamMaxBlockFrames
BlockOfFrame(f) == (f \div StreamMaxBlockFrames) + 1

\* The call went through the loop to its end and returned Ok.
RanToEnd ==
    /\ pc = "returned"
    /\ status = "Ok"
    /\ call.frames > 0
    /\ schedule_data /= <<>>

\* C4: with a schedule installed, running true and no Stop during the call,
\* the schedule runs on sub-blocks of min(remaining, max_block_frames) frames,
\* in order, contiguous, covering exactly [0, frames), each on the input and
\* output slice at offset frames_processed * channels.
C4_BlockSplitting ==
    RanToEnd =>
        /\ Len(blocks) = NumBlocks(call.frames)
        /\ \A i \in 1..Len(blocks) :
              LET start == (i - 1) * StreamMaxBlockFrames
                  n == IF i < Len(blocks) THEN StreamMaxBlockFrames
                       ELSE call.frames - start
              IN /\ blocks[i].start = start
                 /\ blocks[i].frames = n
                 /\ n >= 1
                 /\ blocks[i].processed /= 0
                 /\ blocks[i].in_lo = start * call.num_in_channels
                 /\ blocks[i].in_hi = (start + n) * call.num_in_channels
                 /\ blocks[i].out_lo = start * call.num_out_channels
                 /\ blocks[i].out_hi = (start + n) * call.num_out_channels
        /\ \A j \in 1..Len(output) :
              output[j] = BlockOfFrame((j - 1) \div call.num_out_channels)

C4_Witness ==
    /\ RanToEnd
    /\ call.frames = 2 * StreamMaxBlockFrames + 1
    /\ call.num_out_channels = 2
    /\ Len(blocks) = 3

\* C5: if process_block's poll_messages pops Stop in sub-block k, then no
\* later sub-block is started, the schedule is not run for sub-block k, and
\* on return the output is zero from the first frame of sub-block k to the
\* end, is as produced before it, and the status is DropProcessor.
C5_StopMidCall ==
    \A k \in 1..Len(blocks) :
        blocks[k].stop =>
            /\ k = Len(blocks)
            /\ blocks[k].processed = 0
            /\ \A i \in 1..(k - 1) : blocks[i].processed /= 0
            /\ pc = "returned" =>
                  /\ status = "DropProcessor"
                  /\ \A j \in 1..Len(output) :
                        output[j] =
                           IF j > blocks[k].start * call.num_out_channels
                           THEN Zero
                           ELSE BlockOfFrame((j - 1) \div call.num_out_channels)

C5_Witness ==
    /\ pc = "returned"
    /\ Len(blocks) = 2
    /\ blocks[2].stop
    /\ call.frames > 2 * StreamMaxBlockFrames
    /\ call.num_out_channels = 2

AllZero(buf) == \A j \in 1..Len(buf) : buf[j] = Zero

\* C6: if running is false after the first drain of process_interleaved, the
\* whole output is zero-filled, no schedule or node processor is invoked and
\* the call returns DropProcessor, with or without a schedule and for any
\* frames, 0 included.
C6_StoppedReturnsDrop ==
    (last.op = "AfterFirstPoll" /\ ~last.pre_running) =>
        /\ pc = "returned"
        /\ status = "DropProcessor"
        /\ aborted = "none"
        /\ AllZero(output)
        /\ blocks = <<>>

C6_Witness ==
    /\ last.op = "AfterFirstPoll"
    /\ ~last.pre_running
    /\ schedule_data = <<>>
    /\ Len(output) > 0

\* C7: if running is true after the first drain and no schedule is installed
\* or frames = 0, the whole output is zero-filled, no node processor is
\* invoked, the length assertions are not evaluated (buffers of any length
\* pass) and the call returns Ok.
C7_SilentReturnsOk ==
    (/\ last.op = "AfterFirstPoll"
     /\ last.pre_running
     /\ (schedule_data = <<>> \/ call.frames = 0)) =>
        /\ pc = "returned"
        /\ status = "Ok"
        /\ aborted = "none"
        /\ AllZero(output)
        /\ blocks = <<>>

C7_Witness ==
    /\ last.op = "AfterFirstPoll"
    /\ last.pre_running
    /\ schedule_data /= <<>>
    /\ call.frames = 0
    /\ Len(output) > 0
    /\ status = "Ok"


\* C8 (as claimed): when the processor is dropped nothing it owns is
\* deallocated on the audio thread: the installed collection, the active
\* schedule and the user context are in one Dropped message pushed to the
\* outbound queue, and the processor holds none of them.
C8_DropMovesEverything ==
    pc = "dropped" =>
        /\ audio_dropped = <<>>
        /\ out_log /= <<>>
        /\ out_log[Len(out_log)] =
              Dropped(last.pre_nodes, last.pre_schedule, TRUE)
        /\ nodes = EmptyArena
        /\ schedule_data = <<>>
        /\ ~user_cx

\* C9 (as claimed): whatever messages arrive, a call whose buffer lengths
\* equal frames * channels never aborts.
C9_NeverAborts == aborted = "none"

\* The NewSchedule handled by the last step.
LastNew == last.msg[1].data[1]

\* Some processor of `new` is to be installed at a dense index that is taken:
\* by an installed node that `new` does not evict (nothing is evicted when no
\* schedule was active), or by an earlier processor of the same list.
Collides(new, arena, hadOld) ==
    \E i \in 1..Len(new.new_node_processors) :
        LET id == new.new_node_processors[i][1] IN
        \/ /\ Slot(id) \in DOMAIN arena
           /\ \/ ~hadOld
              \/ <<Slot(id), arena[Slot(id)].gen>> \notin Range(new.nodes_to_remove)
        \/ \E j \in 1..(i - 1) : Slot(new.new_node_processors[j][1]) = Slot(id)

\* C9 (amended): a call that returns returns Ok or DropProcessor, and the
\* processor aborts only where its contract is broken: a NewSchedule compiled
\* for another max_block_frames, a full outbound queue when a schedule is
\* replaced, a processor installed at a taken dense index, a dispatch to a
\* node that is not installed, or buffers whose lengths are not
\* frames * channels.
C9_AbortsOnlyOnBrokenContract ==
    /\ pc = "returned" => status \in {"Ok", "DropProcessor"}
    /\ aborted = "none" <=> pc /= "aborted"
    /\ aborted /= "none" =>
        \/ /\ aborted = "max_block_frames"
           /\ last.op = "NewSchedule"
           /\ LastNew.max_block_frames /= StreamMaxBlockFrames
        \/ /\ aborted = "queue_full"
           /\ last.op = "NewSchedule"
           /\ last.pre_schedule /= <<>>
           /\ last.pre_out_len = OutCapacity
        \/ /\ aborted = "collision"
           /\ last.op = "NewSchedule"
           /\ Collides(LastNew, last.pre_nodes, last.pre_schedule /= <<>>)
        \/ /\ aborted = "index"
           /\ last.op = "ProcessBlock"
           /\ \E i \in 1..Len(schedule_data[1].entries) :
                 LET id == schedule_data[1].entries[i] IN
                 ~(Slot(id) \in DOMAIN nodes /\ nodes[Slot(id)].gen = Gen(id))
        \/ /\ aborted = "length_assert"
           /\ last.op = "AfterFirstPoll"
           /\ \/ call.input_len /= call.frames * call.num_in_channels
              \/ Len(output) /= call.frames * call.num_out_channels

C9_Witness ==
    /\ pc = "returned"
    /\ status = "Ok"
    /\ out_log /= <<>>
    /\ blocks /= <<>>
    /\ blocks[Len(blocks)].dispatched /= <<>>

\* C10: a NewSchedule that replaces an active schedule while the outbound
\* queue is full aborts the processor, and the old schedule is neither pushed
\* nor is the queue grown past its capacity; a drop while the queue is full
\* completes without pushing Dropped.
C10_FullOutboundQueue ==
    /\ Len(to_graph) <= OutCapacity
    /\ (/\ last.op = "NewSchedule"
        /\ last.pre_schedule /= <<>>
        /\ LastNew.max_block_frames = StreamMaxBlockFrames
        /\ last.pre_out_len >= OutCapacity) =>
           /\ aborted = "queue_full"
           /\ pc = "aborted"
           /\ last.pre_schedule[1].id \notin {d.id : d \in ReturnedData}
    /\ (last.op = "Drop" /\ last.pre_out_len >= OutCapacity) =>
           /\ pc = "dropped"
           /\ aborted = "none"
           /\ \A i \in 1..Len(out_log) : out_log[i].type /= "Dropped"

C10_Witness ==
    /\ aborted = "queue_full"
    /\ last.pre_out_len >= OutCapacity

C10_DropWitness ==
    /\ pc = "dropped"
    /\ last.op = "Drop"
    /\ last.pre_out_len >= OutCapacity


\* Every channel of `outputs` is 0.0 over its first `frames` samples.
SilentOver(outputs, frames) ==
    \A c \in 1..Len(outputs) : \A i \in 1..frames : outputs[c][i] = Zero

\* C11 (as claimed): after a process call made while the enabled flag is
\* false, every output channel of the node, the first one included, is zero
\* over the frames of the block.
C11_DisabledAllZero ==
    (beep_pc = "idle" /\ beep_call.op = "disabled") =>
        SilentOver(beep_out, beep_call.frames)

\* C12: the node and the processor that activate produced hold the same
\* atomic flag; enabled() returns what the last set_enabled stored; and a
\* process call that starts after a store (with no store between its start
\* and its load) loads the stored value and takes the branch it selects: the
\* tone when true, no tone when false.
C12_SharedFlag ==
    /\ beep /= <<>> => beep[1].enabled = node[1].enabled
    /\ node /= <<>> => Enabled = beep_hist.last_set
    /\ (beep_call.loaded /= <<>> /\ ~beep_call.stored) =>
          /\ beep_call.loaded[1] = beep_call.set_at_start
          /\ beep_call.op = "enabled" =>
                /\ beep_call.set_at_start
                /\ Len(beep_call.phases) = beep_call.frames
          /\ beep_call.op = "disabled" =>
                /\ ~beep_call.set_at_start
                /\ beep_call.phases = <<>>

C12_Witness ==
    /\ beep_pc = "idle"
    /\ beep_call.op = "enabled"
    /\ ~beep_call.stored
    /\ ~beep_hist.init
    /\ beep_hist.set_after

\* C13: the active schedule always has the max_block_frames of the stream; a
\* NewSchedule with another value fails the assertion with the installed
\* collection and the active schedule as they were and nothing pushed to the
\* outbound queue; and the block_frames of every sub-block is at least 1 and at most the
\* max_block_frames of the active schedule.
C13_ActiveScheduleFits ==
    /\ \A i \in 1..Len(schedule_data) :
          schedule_data[i].max_block_frames = StreamMaxBlockFrames
    /\ (last.op = "NewSchedule" /\
        LastNew.max_block_frames /= StreamMaxBlockFrames) =>
          /\ aborted = "max_block_frames"
          /\ nodes = last.pre_nodes
          /\ schedule_data = last.pre_schedule
          /\ Len(to_graph) <= last.pre_out_len
          /\ \A i \in 1..Len(schedule_data) :
                schedule_data[i].id \notin {d.id : d \in ReturnedData}
          /\ running = last.pre_running
    /\ \A i \in 1..Len(blocks) :
          /\ blocks[i].frames >= 1
          /\ blocks[i].frames <= StreamMaxBlockFrames
    /\ (pc \in {"block_poll", "read"}) =>
          /\ block_frames = blocks[Len(blocks)].frames
          /\ \A i \in 1..Len(schedule_data) :
                block_frames <= schedule_data[i].max_block_frames

C13_Witness ==
    /\ aborted = "max_block_frames"
    /\ last.pre_schedule /= <<>>
    /\ Len(blocks) = 2
    /\ blocks[2].frames = 1

\* The last step handled a NewSchedule that passed the max_block_frames
\* assertion and the push of the old schedule.
Installing ==
    /\ last.op = "NewSchedule"
    /\ aborted \in {"none", "collision"}

\* The node IDs the last NewSchedule evicted: those of its nodes_to_remove
\* that were installed, when a schedule was active.
Evicted ==
    IF last.pre_schedule = <<>> THEN {}
    ELSE {n \in Range(LastNew.nodes_to_remove) : ArenaContains(last.pre_nodes, n)}

\* C14 (as claimed): a processor that was installed when a NewSchedule
\* arrived is still installed afterwards unless the message evicted it: no
\* installed processor is overwritten.
C14_NeverOverwritten ==
    last.op = "NewSchedule" =>
        \A s \in DOMAIN last.pre_nodes :
            \/ <<s, last.pre_nodes[s].gen>> \in Evicted
            \/ /\ s \in DOMAIN nodes
               /\ nodes[s] = last.pre_nodes[s]

\* C14 (amended): evictions come before installations, so a new processor
\* takes the dense index of a node the same message evicted; the collision
\* assertion fails exactly when a new processor goes to a dense index that is
\* taken after the evictions (insert_at has then already replaced the
\* occupant); and while the processor has not aborted every new processor is
\* installed and every processor installed before is installed still, unless
\* the message evicted it.
C14_EvictThenInstall ==
    Installing =>
        /\ aborted = "collision" <=>
              Collides(LastNew, last.pre_nodes, last.pre_schedule /= <<>>)
        /\ aborted = "none" =>
              /\ \A i \in 1..Len(LastNew.new_node_processors) :
                    LET pair == LastNew.new_node_processors[i] IN
                    /\ ArenaContains(nodes, pair[1])
                    /\ nodes[Slot(pair[1])].proc = pair[2]
              /\ \A s \in DOMAIN last.pre_nodes :
                    \/ <<s, last.pre_nodes[s].gen>> \in Evicted
                    \/ /\ s \in DOMAIN nodes
                       /\ nodes[s] = last.pre_nodes[s]
              /\ \A n \in Evicted :
                    \/ ~(Slot(n) \in DOMAIN nodes)
                    \/ nodes[Slot(n)].gen /= Gen(n)

\* A new processor sits at the dense index of a node the same message evicted.
C14_Witness ==
    /\ Installing
    /\ aborted = "none"
    /\ \E n \in Evicted :
          /\ Slot(n) \in DOMAIN nodes
          /\ nodes[Slot(n)].proc.sched = LastNew.id

\* C15: the phase used for the first frame of an enabled call is the phase
\* the previous enabled call left (0 after activate); each generated frame
\* advances it by phasor_inc, wrapped into one cycle, and so does the last;
\* out1 holds the tone at those phases; a call made while disabled, or with
\* no output channel, leaves the phase as it was.
C15_PhaseContinuity ==
    beep_pc = "idle" =>
        /\ beep_call.op = "enabled" =>
              LET ph == beep_call.phases
                  inc == beep[1].phasor_inc
              IN /\ Len(ph) = beep_call.frames
                 /\ ph[1] = beep_call.prev_left
                 /\ \A i \in 2..Len(ph) : ph[i] = (ph[i - 1] + inc) % PhaseSteps
                 /\ beep[1].phasor = (ph[Len(ph)] + inc) % PhaseSteps
                 /\ beep[1].phasor \in 0..(PhaseSteps - 1)
                 /\ \A i \in 1..Len(ph) :
                       beep_out[1][i] = Tone(ph[i], beep[1].gain)
        /\ beep_call.op \in {"disabled", "no_outputs"} =>
              /\ beep[1].phasor = beep_call.entry_phasor
              /\ beep[1].phasor = beep_hist.left

\* An enabled call after a disabled call after an enabled call that left the
\* phase away from 0.
C15_Witness ==
    /\ beep_pc = "idle"
    /\ beep_hist.prev = <<"enabled", "disabled", "enabled">>
    /\ beep_call.prev_left /= 0
    /\ beep_call.frames = BeepMaxBlockFrames
    /\ beep[1].gain = 1
    /\ beep[1].phasor /= beep_call.prev_left

\* The current call began after a Stop had been drained.
LaterCall == ~call.entry_running

\* C16 (as claimed): every call that begins after a Stop was drained returns
\* DropProcessor with an all-zero output, whatever NewSchedule it receives.
C16_LaterCallsReturnDrop ==
    (LaterCall /\ pc /= "poll") =>
        /\ pc = "returned"
        /\ status = "DropProcessor"
        /\ AllZero(output)

\* C16 (amended): no audio-thread step sets running again; once it is false
\* no further sub-block is started and no schedule is run; a call that began
\* after the Stop runs no sub-block and, when it returns, returns
\* DropProcessor with an all-zero output; it fails to return only where a
\* NewSchedule drained by it fails an assertion of poll_messages.
C16_StopAbsorbing ==
    /\ ~last.pre_running => ~running
    /\ ~running => pc /= "loop"
    /\ (last.op = "ProcessBlock" /\ ~last.pre_running) =>
          /\ pc = "read"
          /\ blocks[Len(blocks)].processed = 0
          /\ blocks[Len(blocks)].dispatched = <<>>
    /\ LaterCall =>
          /\ ~running
          /\ blocks = <<>>
          /\ pc \in {"poll", "returned", "aborted"}
          /\ pc = "returned" =>
                /\ status = "DropProcessor"
                /\ AllZero(output)
          /\ pc = "aborted" =>
                /\ last.op = "NewSchedule"
                /\ aborted \in {"max_block_frames", "queue_full", "collision"}

\* A call that began stopped, received a NewSchedule that installed a node
\* processor, and returned.
C16_Witness ==
    /\ LaterCall
    /\ pc = "returned"
    /\ status = "DropProcessor"
    /\ Len(output) > 0
    /\ Cardinality(received) > call.entry_received
    /\ schedule_data /= <<>>
    /\ schedule_data[1].entries /= <<>>
    /\ nodes /= EmptyArena

IsReturnSchedule(m) == m.type = "ReturnSchedule"

\* The ReturnSchedule messages pushed so far, in the order of the pushes.
Returns == SelectSeq(out_log, IsReturnSchedule)

\* C17: the control side numbers its NewSchedule messages 1, 2, ... in the
\* order it sends them; the processor receives them in that order; while it
\* has not aborted the active schedule is the last one received; and the k-th
\* ReturnSchedule carries schedule k: the replaced schedules come back in the
\* order they were installed, each once, and never the active one.
C17_FifoOrder ==
    LET n == Cardinality(received) IN
    /\ {d.id : d \in received} = 1..n
    /\ \A k \in 1..Len(Returns) : Returns[k].data[1].id = k
    /\ Len(Returns) <= IF n = 0 THEN 0 ELSE n - 1
    /\ (aborted = "none" /\ n > 0) =>
          /\ Len(Returns) = n - 1
          /\ pc /= "dropped" =>
                /\ schedule_data /= <<>>
                /\ schedule_data[1].id = n

C17_Witness ==
    /\ Cardinality(received) = MaxSchedules
    /\ Len(Returns) = MaxSchedules - 1
    /\ aborted = "none"
    /\ pc = "poll"
    /\ last.op = "NewSchedule"
    /\ schedule_data[1].id = MaxSchedules

\* C18: while the processor has not aborted, the installed collection is
\* empty whenever no schedule is active, so the first NewSchedule, whose
\* nodes_to_remove is not looked at, finds nothing installed; and after the
\* first NewSchedule a schedule is active until the processor is dropped.
C18_ScheduleOrEmpty ==
    /\ (last.op = "NewSchedule" /\ last.pre_schedule = <<>>) =>
          last.pre_nodes = EmptyArena
    /\ pc /= "aborted" =>
          /\ schedule_data = <<>> => nodes = EmptyArena
          /\ (received /= {} /\ pc /= "dropped") => schedule_data /= <<>>
    /\ pc = "dropped" => (schedule_data = <<>> /\ nodes = EmptyArena)

\* The first NewSchedule named a node to remove and installed a processor.
C18_Witness ==
    /\ last.op = "NewSchedule"
    /\ last.pre_schedule = <<>>
    /\ LastNew.nodes_to_remove /= <<>>
    /\ aborted = "none"
    /\ nodes /= EmptyArena
    /\ schedule_data /= <<>>

\* C19: when every NewSchedule is well formed, the lookup
\* self.nodes[node_id.idx] of schedule.process never fails: every node the
\* active schedule dispatches is installed, at every invocation, the first
\* one after a schedule was swapped in the middle of a call included.
C19_DispatchSafe ==
    /\ aborted /= "index"
    /\ (schedule_data /= <<>> /\ aborted = "none") =>
          Range(schedule_data[1].entries) \subseteq IdsOf(nodes)
    /\ (last.op = "ProcessBlock" /\ last.pre_running) =>
          /\ pc = "read"
          /\ blocks[Len(blocks)].processed = schedule_data[1].id
          /\ blocks[Len(blocks)].dispatched = schedule_data[1].entries
          /\ \A i \in 1..Len(schedule_data[1].entries) :
                ArenaContains(nodes, schedule_data[1].entries[i])

\* schedule.process has just dispatched a node for a schedule that was
\* swapped in after the inputs of the sub-block were prepared.
C19_Witness ==
    /\ last.op = "ProcessBlock"
    /\ last.pre_running
    /\ pc = "read"
    /\ blocks[Len(blocks)].dispatched /= <<>>
    /\ blocks[Len(blocks)].prepared /= blocks[Len(blocks)].processed
    /\ nodes[Slot(blocks[Len(blocks)].dispatched[1])].proc.sched =
          blocks[Len(blocks)].processed

====
